---- MODULE Spec2Model ----
(***************************************************************************)
(* Model of the multi-provider orchestration layer of the Shadow Market    *)
(* Tracker extension: the provider registry and the intent classifier of   *)
(* config/apis.js, the fallback engine (executeApiWithFallback,            *)
(* executeMultipleApis, smartApiSelection) and the resilient transport of  *)
(* utils/fetchHandler.js (enforceRateLimit, robustFetch).                  *)
(*                                                                         *)
(* Strings that the code inspects character by character (queries and      *)
(* keywords) are sequences of one-character strings.                       *)
(***************************************************************************)
EXTENDS Integers, Sequences, FiniteSets, TLC

VARIABLES
    catalog,    \* which provider catalog is loaded (see Registry)
    keys,       \* chrome.storage.local: the key types that hold a credential
    smart,      \* the running top-level call (smartApiSelection or a direct call)
    calls,      \* one executeApiWithFallback activation per slot
    now,        \* Date.now(), in ms
    lastRequestTime,  \* fetchHandler.js: the rate limiter's timestamp
    limiter,    \* per caller of robustFetch: its position in the rate limiter
    fetch,      \* one robustFetch call behind the rate limiter
    health,     \* the running checkAllApisHealth call
    impl,       \* the file whose getApiKey and setApiKey the global names are bound to
    storage,    \* chrome.storage.local as the credential store sees it: item -> value
    cred,       \* the credential store operation made last, and what it gave
    usage,      \* background.js: pagesAnalyzedCount in storage and the 'scan' handlers
    analysis,   \* background.js: isProcessing, analysisQueue and the analyzePage calls
    batch       \* fetchHandler.js: one batchRequests call and its requests

vars == <<catalog, keys, smart, calls, now, lastRequestTime, limiter, fetch,
          health, impl, storage, cred, usage, analysis, batch>>

\* the variables of the orchestrator, of the transport, of the credential
\* store, of the background worker and of batchRequests
orchVars == <<catalog, keys, smart, calls, health>>
rateVars == <<now, lastRequestTime, limiter>>
fetchVars == <<fetch>>
storeVars == <<impl, storage, cred>>
bgVars == <<usage, analysis>>
batchVars == <<batch>>

----------------------------------------------------------------------------
(* Bounds *)

\* largest options.maxApis a caller passes (0 stands for "not given")
MaxApisOpt == 3

\* the robustFetch calls that go through the rate limiter
NumCallers == 3

\* the clock stops here
MaxTime == 2000

\* largest options.maxRetries a caller passes
MaxRetriesOpt == 4

\* longest array of requests given to batchRequests
MaxRequests == 4

\* largest maxConcurrency a caller passes
MaxConcurrencyOpt == 3

\* the 'scan' messages handled at once
NumScans == 2

\* no 'scan' message arrives once this many were admitted since the last reset
MaxAdmitted == 7

\* the 'reset_usage_count' messages handled
MaxResets == 1

\* the analyzePage calls made
MaxAnalyses == 4

----------------------------------------------------------------------------
(* config/apis.js: constants and the registry *)

PRIORITY == [HIGH |-> 1, MEDIUM |-> 2, LOW |-> 3]

NoKeyType == "none"

KeyTypes == {"serpapi", "newsapi", "openweather", "rapidapi",
             "alphavantage", "omdb", "tmdb"}

\* a variant in which the last provider of the search category falls back
\* to the first one
Entry_LoopsBack(cat, prio, req, kt, fb) ==
    [category |-> cat, priority |-> prio, requiresKey |-> req, keyType |-> kt,
     fallbacks |-> IF cat = "search" /\ fb = <<>> THEN <<"serpapi_google">> ELSE fb]

\* a variant in which the weather fallback is written with a misspelt id
Entry_MisspeltFallback(cat, prio, req, kt, fb) ==
    [category |-> cat, priority |-> prio, requiresKey |-> req, keyType |-> kt,
     fallbacks |-> IF cat = "weather" /\ fb # <<>> THEN <<"weatherapi_curent">> ELSE fb]

Entry(cat, prio, req, kt, fb) ==
    [category |-> cat, priority |-> prio, requiresKey |-> req,
     keyType |-> kt, fallbacks |-> fb]

API_REGISTRY ==
    [id \in {"serpapi_google", "wikipedia_search", "duckduckgo_instant",
             "newsapi_everything", "serpapi_news", "reddit_search",
             "openweather_current", "weatherapi_current",
             "alphavantage_quote", "yahoo_finance",
             "omdb_search", "tmdb_search", "github_search"} |->
      CASE id = "serpapi_google" ->
             Entry("search", PRIORITY.HIGH, TRUE, "serpapi",
                   <<"wikipedia_search", "duckduckgo_instant">>)
        [] id = "wikipedia_search" ->
             Entry("search", PRIORITY.HIGH, FALSE, NoKeyType,
                   <<"duckduckgo_instant">>)
        [] id = "duckduckgo_instant" ->
             Entry("search", PRIORITY.MEDIUM, FALSE, NoKeyType, <<>>)
        [] id = "newsapi_everything" ->
             Entry("news", PRIORITY.HIGH, TRUE, "newsapi",
                   <<"serpapi_news", "reddit_search">>)
        [] id = "serpapi_news" ->
             Entry("news", PRIORITY.HIGH, TRUE, "serpapi", <<"reddit_search">>)
        [] id = "reddit_search" ->
             Entry("news", PRIORITY.MEDIUM, FALSE, NoKeyType, <<>>)
        [] id = "openweather_current" ->
             Entry("weather", PRIORITY.HIGH, TRUE, "openweather",
                   <<"weatherapi_current">>)
        [] id = "weatherapi_current" ->
             Entry("weather", PRIORITY.HIGH, TRUE, "rapidapi", <<>>)
        [] id = "alphavantage_quote" ->
             Entry("stocks", PRIORITY.HIGH, TRUE, "alphavantage",
                   <<"yahoo_finance">>)
        [] id = "yahoo_finance" ->
             Entry("stocks", PRIORITY.MEDIUM, FALSE, NoKeyType, <<>>)
        [] id = "omdb_search" ->
             Entry("movies", PRIORITY.HIGH, TRUE, "omdb", <<"tmdb_search">>)
        [] id = "tmdb_search" ->
             Entry("movies", PRIORITY.HIGH, TRUE, "tmdb", <<>>)
        [] id = "github_search" ->
             Entry("tech", PRIORITY.HIGH, FALSE, NoKeyType, <<>>)]

\* the reference a misspelt fallback id is written as
TypoId == "wikipedia_serach"

\* the shipped catalog with one misspelt id in a fallbacks list: ahead of a
\* valid fallback ("typo_mid") or as the last fallback ("typo_last")
TypoRegistry(where) ==
    IF where = "typo_mid"
    THEN [API_REGISTRY EXCEPT !["serpapi_google"].fallbacks =
                                  <<TypoId, "duckduckgo_instant">>]
    ELSE [API_REGISTRY EXCEPT !["serpapi_google"].fallbacks =
                                  <<"duckduckgo_instant", TypoId>>]

\* the object the code reads as API_REGISTRY
Registry ==
    IF catalog = "shipped" THEN API_REGISTRY ELSE TypoRegistry(catalog)

IntentOrder == <<"search", "news", "weather", "stocks", "movies", "tech">>

INTENT_MAPPINGS ==
    [search |->
       [primary |-> <<"serpapi_google", "wikipedia_search">>,
        fallback |-> <<"duckduckgo_instant">>,
        keywords |-> <<
          <<"s","e","a","r","c","h">>,
          <<"f","i","n","d">>,
          <<"l","o","o","k","u","p">>,
          <<"w","h","a","t"," ","i","s">>,
          <<"w","h","o"," ","i","s">>,
          <<"w","h","e","r","e"," ","i","s">> >>],
     news |->
       [primary |-> <<"newsapi_everything", "serpapi_news">>,
        fallback |-> <<"reddit_search">>,
        keywords |-> <<
          <<"n","e","w","s">>,
          <<"l","a","t","e","s","t">>,
          <<"b","r","e","a","k","i","n","g">>,
          <<"h","e","a","d","l","i","n","e","s">>,
          <<"u","p","d","a","t","e","s">> >>],
     weather |->
       [primary |-> <<"openweather_current", "weatherapi_current">>,
        fallback |-> <<>>,
        keywords |-> <<
          <<"w","e","a","t","h","e","r">>,
          <<"t","e","m","p","e","r","a","t","u","r","e">>,
          <<"f","o","r","e","c","a","s","t">>,
          <<"c","l","i","m","a","t","e">>,
          <<"r","a","i","n">>,
          <<"s","u","n","n","y">> >>],
     stocks |->
       [primary |-> <<"alphavantage_quote", "yahoo_finance">>,
        fallback |-> <<>>,
        keywords |-> <<
          <<"s","t","o","c","k">>,
          <<"s","h","a","r","e","s">>,
          <<"p","r","i","c","e">>,
          <<"q","u","o","t","e">>,
          <<"m","a","r","k","e","t">>,
          <<"t","r","a","d","i","n","g">> >>],
     movies |->
       [primary |-> <<"omdb_search", "tmdb_search">>,
        fallback |-> <<>>,
        keywords |-> <<
          <<"m","o","v","i","e">>,
          <<"f","i","l","m">>,
          <<"c","i","n","e","m","a">>,
          <<"a","c","t","o","r">>,
          <<"d","i","r","e","c","t","o","r">>,
          <<"i","m","d","b">> >>],
     tech |->
       [primary |-> <<"github_search">>,
        fallback |-> <<"serpapi_google">>,
        keywords |-> <<
          <<"g","i","t","h","u","b">>,
          <<"r","e","p","o","s","i","t","o","r","y">>,
          <<"c","o","d","e">>,
          <<"p","r","o","g","r","a","m","m","i","n","g">>,
          <<"s","o","f","t","w","a","r","e">> >>]]

----------------------------------------------------------------------------
(* The queries the callers of the model pass, and their characters *)

Queries == {"weather in Paris", "weather", "latest AI news",
            "stock market news", "find a film", "hello", "RAIN?",
            "find latest weather forecast"}

Chars(q) ==
    CASE q = "weather in Paris" ->
           <<"w","e","a","t","h","e","r"," ","i","n"," ","P","a","r","i","s">>
      [] q = "weather" -> <<"w","e","a","t","h","e","r">>
      [] q = "latest AI news" ->
           <<"l","a","t","e","s","t"," ","A","I"," ","n","e","w","s">>
      [] q = "stock market news" ->
           <<"s","t","o","c","k"," ","m","a","r","k","e","t"," ","n","e","w","s">>
      [] q = "find a film" -> <<"f","i","n","d"," ","a"," ","f","i","l","m">>
      [] q = "hello" -> <<"h","e","l","l","o">>
      [] q = "RAIN?" -> <<"R","A","I","N","?">>
      [] q = "find latest weather forecast" ->
           <<"f","i","n","d"," ","l","a","t","e","s","t"," ",
             "w","e","a","t","h","e","r"," ","f","o","r","e","c","a","s","t">>

----------------------------------------------------------------------------
(* config/apis.js: intent detection *)

UpperCase == <<"A","B","C","D","E","F","G","H","I","J","K","L","M",
               "N","O","P","Q","R","S","T","U","V","W","X","Y","Z">>
LowerCase == <<"a","b","c","d","e","f","g","h","i","j","k","l","m",
               "n","o","p","q","r","s","t","u","v","w","x","y","z">>

\* String.prototype.toLowerCase
toLowerCase(s) ==
    [i \in 1..Len(s) |->
       IF \E k \in 1..26 : UpperCase[k] = s[i]
       THEN LowerCase[CHOOSE k \in 1..26 : UpperCase[k] = s[i]]
       ELSE s[i]]

\* String.prototype.includes
includes(s, k) ==
    \E i \in 0..(Len(s) - Len(k)) : SubSeq(s, i + 1, i + Len(k)) = k

\* the inner loop of detectIntent: the summed length of the keywords found
RECURSIVE KeywordScore(_, _, _)
KeywordScore(lowerQuery, keywords, i) ==
    IF i > Len(keywords) THEN 0
    ELSE (IF includes(lowerQuery, keywords[i]) THEN Len(keywords[i]) ELSE 0)
         + KeywordScore(lowerQuery, keywords, i + 1)

\* intentScores, as its entries in insertion order (only scores > 0 are kept)
RECURSIVE IntentScores(_, _)
IntentScores(lowerQuery, i) ==
    IF i > Len(IntentOrder) THEN <<>>
    ELSE LET intent == IntentOrder[i]
             score  == KeywordScore(lowerQuery, INTENT_MAPPINGS[intent].keywords, 1)
         IN (IF score > 0 THEN <<[intent |-> intent, score |-> score]>> ELSE <<>>)
            \o IntentScores(lowerQuery, i + 1)

\* a variant that puts e ahead of the entries of equal score
RECURSIVE InsertDesc_AheadOfEqual(_, _)
InsertDesc_AheadOfEqual(e, sorted) ==
    IF sorted = <<>> THEN <<e>>
    ELSE IF Head(sorted).score > e.score
         THEN <<Head(sorted)>> \o InsertDesc_AheadOfEqual(e, Tail(sorted))
         ELSE <<e>> \o sorted

\* insertion of e behind every entry that does not sort after it
RECURSIVE InsertDesc(_, _)
InsertDesc(e, sorted) ==
    IF sorted = <<>> THEN <<e>>
    ELSE IF Head(sorted).score >= e.score
         THEN <<Head(sorted)>> \o InsertDesc(e, Tail(sorted))
         ELSE <<e>> \o sorted

\* Array.prototype.sort(([,a],[,b]) => b - a): a stable sort, highest score first
RECURSIVE SortByScoreDesc(_)
SortByScoreDesc(entries) ==
    IF entries = <<>> THEN <<>>
    ELSE InsertDesc(entries[Len(entries)],
                    SortByScoreDesc(SubSeq(entries, 1, Len(entries) - 1)))

\* a confidence is the fraction num/den (score / query.length, or 0.1)
Confidence(n, d) == [num |-> n, den |-> d]

\* a variant whose alternatives start at the winning category
detectIntent_KeepsWinner(query) ==
    LET sortedIntents == SortByScoreDesc(IntentScores(toLowerCase(query), 1))
    IN IF Len(sortedIntents) > 0
       THEN [intent |-> sortedIntents[1].intent,
             confidence |-> Confidence(sortedIntents[1].score, Len(query)),
             alternatives |->
               [i \in 1..Len(sortedIntents) |->
                  [intent |-> sortedIntents[i].intent,
                   confidence |-> Confidence(sortedIntents[i].score, Len(query))]]]
       ELSE [intent |-> "search",
             confidence |-> Confidence(1, 10),
             alternatives |-> <<>>]

detectIntent(query) ==
    LET sortedIntents == SortByScoreDesc(IntentScores(toLowerCase(query), 1))
    IN IF Len(sortedIntents) > 0
       THEN [intent |-> sortedIntents[1].intent,
             confidence |-> Confidence(sortedIntents[1].score, Len(query)),
             alternatives |->
               [i \in 1..(Len(sortedIntents) - 1) |->
                  [intent |-> sortedIntents[i + 1].intent,
                   confidence |-> Confidence(sortedIntents[i + 1].score, Len(query))]]]
       ELSE [intent |-> "search",
             confidence |-> Confidence(1, 10),
             alternatives |-> <<>>]

\* detectIntent on each query of the model, tabulated
IntentResult == [q \in Queries |-> detectIntent(Chars(q))]

\* intentResult.confidence < 0.5
BelowHalf(c) == 2 * c.num < c.den

----------------------------------------------------------------------------
(* config/apis.js: availability and provider selection *)

\* getStoredApiKey(provider) is non-null
getStoredApiKey(keyType) == keyType \in keys

\* a variant that reports every provider as available
isApiAvailable_IgnoresKey(api) == TRUE

\* the value isApiAvailable(api) resolves to
isApiAvailable(api) ==
    IF ~api.requiresKey THEN TRUE ELSE getStoredApiKey(api.keyType)

\* the truthiness of the expression isApiAvailable(api) where the code does
\* not await it: the operand is the pending Promise object, which is truthy
\* whatever it later resolves to
UnawaitedIsApiAvailable(api) == TRUE

\* the entries pushed for one of the two lists of a mapping
RECURSIVE PushApis(_, _, _, _)
PushApis(ids, type, includeUnavailable, i) ==
    IF i > Len(ids) THEN <<>>
    ELSE (IF ids[i] \in DOMAIN Registry
             /\ (includeUnavailable \/ UnawaitedIsApiAvailable(Registry[ids[i]]))
          THEN <<[id |-> ids[i], type |-> type,
                  priority |-> Registry[ids[i]].priority]>>
          ELSE <<>>)
         \o PushApis(ids, type, includeUnavailable, i + 1)

WithPriority(apis, p) == SelectSeq(apis, LAMBDA a : a.priority = p)

\* apis.sort((a, b) => a.priority - b.priority): stable, lowest ordinal first
SortByPriority(apis) ==
    WithPriority(apis, PRIORITY.HIGH) \o WithPriority(apis, PRIORITY.MEDIUM)
      \o WithPriority(apis, PRIORITY.LOW)

getApisForIntent(intent, includeUnavailable) ==
    LET mapping == IF intent \in DOMAIN INTENT_MAPPINGS
                   THEN INTENT_MAPPINGS[intent] ELSE INTENT_MAPPINGS.search
        primary == PushApis(mapping.primary, "primary", includeUnavailable, 1)
        apis    == IF Len(primary) = 0 \/ includeUnavailable
                   THEN primary \o PushApis(mapping.fallback, "fallback",
                                            includeUnavailable, 1)
                   ELSE primary
    IN SortByPriority(apis)

----------------------------------------------------------------------------
(* config/apis.js: executeApiWithFallback, one activation per slot *)

Slots == 1..MaxApisOpt

NoError == [kind |-> "none", api |-> "none"]

\* Error(`API ${id} requires a key but none found`)
KeyError(id) == [kind |-> "nokey", api |-> id]

\* whatever the handler of id threw
HandlerError(id) == [kind |-> "handler", api |-> id]

NoResult == [kind |-> "none"]

IdleCall ==
    [pc |-> "idle", apiId |-> "none", callStack |-> <<>>, idx |-> 0,
     lastError |-> NoError, tried |-> <<>>, invoked |-> <<>>,
     result |-> NoResult]

\* the first position >= i of the call stack whose id is in the registry
\* ("if (!currentApi) continue"), or Len + 1 when the loop runs out
RECURSIVE NextCandidate(_, _)
NextCandidate(callStack, i) ==
    IF i > Len(callStack) THEN i
    ELSE IF callStack[i] \in DOMAIN Registry THEN i
         ELSE NextCandidate(callStack, i + 1)

\* throw new Error(`All APIs failed. Last error: ${lastError?.message}`)
AllFailed(c, err) ==
    [c EXCEPT !.pc = "thrown", !.lastError = err,
              !.result = [kind |-> "all_failed", last |-> err]]

\* the entry of executeApiWithFallback up to its first await
StartCall(apiId) ==
    IF apiId \notin DOMAIN Registry
    THEN [IdleCall EXCEPT !.pc = "thrown", !.apiId = apiId,
                          !.result = [kind |-> "unknown_api", api |-> apiId]]
    ELSE [IdleCall EXCEPT !.pc = "check", !.apiId = apiId,
                          !.callStack = <<apiId>> \o Registry[apiId].fallbacks,
                          !.idx = 1]

\* a variant that steps over the candidate behind the failed one
Catch_SkipsCandidate(c, err) ==
    LET cur  == c.callStack[c.idx]
        next == NextCandidate(c.callStack, c.idx + 2)
    IN IF cur = c.callStack[Len(c.callStack)] \/ next > Len(c.callStack)
       THEN AllFailed(c, err)
       ELSE [c EXCEPT !.pc = "check", !.idx = next, !.lastError = err]

\* a variant that keeps the first error it recorded
Catch_KeepsFirstError(c, err) ==
    LET cur  == c.callStack[c.idx]
        next == NextCandidate(c.callStack, c.idx + 1)
        kept == IF c.lastError = NoError THEN err ELSE c.lastError
    IN IF cur = c.callStack[Len(c.callStack)] \/ next > Len(c.callStack)
       THEN AllFailed(c, kept)
       ELSE [c EXCEPT !.pc = "check", !.idx = next, !.lastError = kept]

\* the catch block of the loop, and what follows it up to the next await
Catch(c, err) ==
    LET cur  == c.callStack[c.idx]
        next == NextCandidate(c.callStack, c.idx + 1)
    IN IF cur = c.callStack[Len(c.callStack)]
       THEN AllFailed(c, err)
       ELSE IF next > Len(c.callStack)
       THEN AllFailed([c EXCEPT !.idx = next], err)
       ELSE [c EXCEPT !.pc = "check", !.idx = next, !.lastError = err]

\* a variant with the comparison inverted
WasFallback_Inverted(currentApiId, apiId) == currentApiId = apiId

\* the value of the wasFallback field of a success
WasFallback(currentApiId, apiId) == currentApiId # apiId

\* await isApiAvailable(currentApi) resolves: the handler is called, or the
\* missing key is thrown into the catch block
CheckAvailable(s) ==
    /\ calls[s].pc = "check"
    /\ LET c   == calls[s]
           cur == c.callStack[c.idx]
           c1  == [c EXCEPT !.tried = Append(@, cur)]
       IN IF isApiAvailable(Registry[cur])
          THEN calls' = [calls EXCEPT ![s] =
                           [c1 EXCEPT !.pc = "handler",
                                      !.invoked = Append(@, cur)]]
          ELSE calls' = [calls EXCEPT ![s] = Catch(c1, KeyError(cur))]
    /\ UNCHANGED <<health, rateVars, fetchVars, storeVars, bgVars, batchVars>> /\ UNCHANGED <<catalog, keys, smart>>

\* await currentApi.handler(query, options) resolves
HandlerSucceeds(s) ==
    /\ calls[s].pc = "handler"
    /\ LET c   == calls[s]
           cur == c.callStack[c.idx]
       IN calls' = [calls EXCEPT ![s] =
                      [c EXCEPT !.pc = "returned",
                                !.result = [kind |-> "success", api |-> cur,
                                            wasFallback |-> WasFallback(cur, c.apiId)]]]
    /\ UNCHANGED <<health, rateVars, fetchVars, storeVars, bgVars, batchVars>> /\ UNCHANGED <<catalog, keys, smart>>

\* await currentApi.handler(query, options) rejects
HandlerFails(s) ==
    /\ calls[s].pc = "handler"
    /\ LET c == calls[s]
       IN calls' = [calls EXCEPT ![s] = Catch(c, HandlerError(c.callStack[c.idx]))]
    /\ UNCHANGED <<health, rateVars, fetchVars, storeVars, bgVars, batchVars>> /\ UNCHANGED <<catalog, keys, smart>>

----------------------------------------------------------------------------
(* config/apis.js: smartApiSelection, executeMultipleApis and direct calls *)

\* before detectIntent has run
NoIntentResult == [intent |-> "none", confidence |-> Confidence(0, 1), alternatives |-> <<>>]

IdleSmart ==
    [pc |-> "idle", mode |-> "none", query |-> "", useMultiple |-> FALSE, maxApis |-> 0,
     intent |-> "none", intentResult |-> NoIntentResult, availableApis |-> <<>>,
     apiIds |-> <<>>, outcome |-> NoResult]

Min(a, b) == IF a < b THEN a ELSE b

\* a variant that always takes two providers
SelectApiIds_IgnoresMaxApis(availableApis, maxApis) ==
    [i \in 1..Min(2, Len(availableApis)) |-> availableApis[i].id]

\* a variant that takes the top provider for every place
SelectApiIds_RepeatsTop(availableApis, maxApis) ==
    LET n == IF maxApis = 0 THEN 2 ELSE maxApis
    IN [i \in 1..Min(n, Len(availableApis)) |-> availableApis[1].id]

\* availableApis.slice(0, options.maxApis || 2).map(api => api.id)
SelectApiIds(availableApis, maxApis) ==
    LET n == IF maxApis = 0 THEN 2 ELSE maxApis
    IN [i \in 1..Min(n, Len(availableApis)) |-> availableApis[i].id]

\* a caller invokes executeApiWithFallback(apiId, ...) itself
DirectCall(apiId) ==
    /\ smart.pc = "idle"
    /\ smart' = [IdleSmart EXCEPT !.pc = "direct", !.mode = "direct", !.apiIds = <<apiId>>]
    /\ calls' = [calls EXCEPT ![1] = StartCall(apiId)]
    /\ UNCHANGED <<health, rateVars, fetchVars, storeVars, bgVars, batchVars>> /\ UNCHANGED <<catalog, keys>>

\* smartApiSelection(query, options) up to the first await of its callees
SmartApiSelection(query, useMultiple, maxApis) ==
    /\ smart.pc = "idle"
    /\ LET intentResult  == IntentResult[query]
           availableApis == getApisForIntent(intentResult.intent, FALSE)
           s0 == [IdleSmart EXCEPT !.query = query, !.useMultiple = useMultiple,
                                   !.maxApis = maxApis,
                                   !.intent = intentResult.intent,
                                   !.intentResult = intentResult,
                                   !.availableApis = availableApis]
       IN IF Len(availableApis) = 0
          THEN /\ smart' = [s0 EXCEPT !.pc = "thrown",
                               !.outcome = [kind |-> "no_available_apis"]]
               /\ UNCHANGED calls
          ELSE IF useMultiple \/ BelowHalf(intentResult.confidence)
          THEN LET apiIds == SelectApiIds(availableApis, maxApis)
               IN /\ smart' = [s0 EXCEPT !.pc = "multi", !.mode = "multi", !.apiIds = apiIds]
                  /\ calls' = [s \in Slots |->
                                 IF s <= Len(apiIds) THEN StartCall(apiIds[s])
                                 ELSE IdleCall]
          ELSE /\ smart' = [s0 EXCEPT !.pc = "single", !.mode = "single",
                               !.apiIds = <<availableApis[1].id>>]
               /\ calls' = [calls EXCEPT ![1] = StartCall(availableApis[1].id)]
    /\ UNCHANGED <<health, rateVars, fetchVars, storeVars, bgVars, batchVars>> /\ UNCHANGED <<catalog, keys>>

Settled(c) == c.pc \in {"returned", "thrown"}

\* a variant that reports every outcome as a success of the requested provider
MultiEntry_HidesFailure(c) ==
    [success |-> TRUE, api |-> c.apiId, wasFallback |-> FALSE, apiId |-> c.apiId]

\* one element of the array executeMultipleApis resolves to
MultiEntry(c) ==
    IF c.pc = "returned"
    THEN [success |-> TRUE, api |-> c.result.api,
          wasFallback |-> c.result.wasFallback, apiId |-> c.apiId]
    ELSE [success |-> FALSE, error |-> c.result, apiId |-> c.apiId]

\* Promise.allSettled(promises) resolves and the results are mapped
MultiReturns ==
    /\ smart.pc = "multi"
    /\ \A s \in 1..Len(smart.apiIds) : Settled(calls[s])
    /\ smart' = [smart EXCEPT !.pc = "returned",
                    !.outcome = [kind |-> "results",
                                 results |-> [s \in 1..Len(smart.apiIds) |->
                                                MultiEntry(calls[s])]]]
    /\ UNCHANGED <<health, rateVars, fetchVars, storeVars, bgVars, batchVars>> /\ UNCHANGED <<catalog, keys, calls>>

\* return [await executeApiWithFallback(primaryApi.id, ...)], or the
\* direct caller receives the outcome
SingleReturns ==
    /\ smart.pc \in {"single", "direct"}
    /\ Settled(calls[1])
    /\ IF calls[1].pc = "returned"
       THEN smart' = [smart EXCEPT !.pc = "returned",
                         !.outcome = [kind |-> "results",
                                      results |-> <<[success |-> TRUE,
                                         api |-> calls[1].result.api,
                                         wasFallback |-> calls[1].result.wasFallback,
                                         apiId |-> calls[1].apiId]>>]]
       ELSE smart' = [smart EXCEPT !.pc = "thrown", !.outcome = calls[1].result]
    /\ UNCHANGED <<health, rateVars, fetchVars, storeVars, bgVars, batchVars>> /\ UNCHANGED <<catalog, keys, calls>>


----------------------------------------------------------------------------
(* config/apis.js: checkAllApisHealth *)

\* Object.entries(API_REGISTRY): the ids in the order they are declared
RegistryOrder ==
    <<"serpapi_google", "wikipedia_search", "duckduckgo_instant",
      "newsapi_everything", "serpapi_news", "reddit_search",
      "openweather_current", "weatherapi_current",
      "alphavantage_quote", "yahoo_finance",
      "omdb_search", "tmdb_search", "github_search">>

IdleHealth == [pc |-> "idle", idx |-> 0, healthResults |-> <<>>]

\* a variant that reports a provider as available when it requires a key
HealthEntry_RequiresKeyIsAvailable(api, isAvailable) ==
    [available |-> api.requiresKey, requiresKey |-> api.requiresKey,
     keyType |-> api.keyType, category |-> api.category, priority |-> api.priority]

\* the object stored as healthResults[apiId] (keyType "none" is the null of
\* api.keyType || null)
HealthEntry(api, isAvailable) ==
    [available |-> isAvailable, requiresKey |-> api.requiresKey,
     keyType |-> api.keyType, category |-> api.category, priority |-> api.priority]

\* checkAllApisHealth() is called and reaches its first await
CheckAllApisHealth ==
    /\ smart.pc = "idle"
    /\ health.pc = "idle"
    /\ smart' = [IdleSmart EXCEPT !.pc = "health", !.mode = "health"]
    /\ health' = [IdleHealth EXCEPT !.pc = "probe", !.idx = 1]
    /\ UNCHANGED <<rateVars, fetchVars, storeVars, bgVars, batchVars>> /\ UNCHANGED <<catalog, keys, calls>>

\* one iteration of the loop: await isApiAvailable(api) resolves and the
\* entry is stored; after the last entry the function returns healthResults.
\* The catch branch is never entered: isApiAvailable only awaits
\* getStoredApiKey, which catches whatever the storage raises.
ProbeApi ==
    /\ health.pc = "probe"
    /\ LET apiId == RegistryOrder[health.idx]
           api == Registry[apiId]
           entry == HealthEntry(api, isApiAvailable(api))
           done == DOMAIN health.healthResults \cup {apiId}
       IN health' = [health EXCEPT
                        !.healthResults = [id \in done |->
                                             IF id = apiId THEN entry
                                             ELSE health.healthResults[id]],
                        !.idx = health.idx + 1,
                        !.pc = IF health.idx = Len(RegistryOrder)
                               THEN "returned" ELSE "probe"]
    /\ UNCHANGED <<rateVars, fetchVars, storeVars, bgVars, batchVars>> /\ UNCHANGED <<catalog, keys, smart, calls>>

----------------------------------------------------------------------------
(* The credential store: getApiKey and setApiKey of utils/fetchHandler.js, *)
(* self.getApiKey and self.setApiKey of utils/apiUtils.js, and             *)
(* getStoredApiKey of config/apis.js, over chrome.storage.local            *)

\* JavaScript values: a type tag and the text of the value
Str(t) == [type |-> "string", text |-> t]
Num(t) == [type |-> "number", text |-> t]
Null == [type |-> "null", text |-> ""]
Undefined == [type |-> "undefined", text |-> ""]
JsTrue == [type |-> "boolean", text |-> "true"]
JsFalse == [type |-> "boolean", text |-> "false"]

\* !!v
Truthy(v) ==
    CASE v.type = "string" -> v.text # ""
      [] v.type = "number" -> v.text # "0"
      [] v.type = "boolean" -> v.text = "true"
      [] OTHER -> FALSE

\* the provider names callers pass ("" is the falsy name) and the values
\* they ask to store
Providers == {"", "serpapi", "serpapi_key"}
Secrets == {Str(""), Str("sk-1"), Str("sk-2"), Num("7"), Null}

\* the items of chrome.storage.local the store can touch
Items == Providers \cup {p \o "_key" : p \in Providers}

\* what an operation meets when it turns to the host: a working storage;
\* no chrome global; a chrome object without .storage; a storage call that
\* throws at once; a storage operation that fails (the promise form
\* rejects, the callback form sets chrome.runtime.lastError)
HostConditions == {"ok", "chrome_undefined", "storage_missing", "call_throws", "op_fails"}

Impls == {"fetchHandler", "apiUtils"}

\* how a call ends: the value its promise resolves to, or the error it
\* rejects with
Resolved(v) == [kind |-> "resolved", value |-> v]
Raised(e) == [kind |-> "raised", value |-> Str(e)]

\* what a function of the store gives: its outcome and the storage it leaves
Gives(outcome, st) == [outcome |-> outcome, storage |-> st]

\* a variant of getApiKey that reads the item named by the bare provider
getApiKey_ReadsBareName(provider, hostIs, st) ==
    IF provider = "" THEN Gives(Resolved(Null), st)
    ELSE IF hostIs # "ok" THEN Gives(Resolved(Null), st)
    ELSE Gives(Resolved(st[provider]), st)

\* fetchHandler.js getApiKey(provider): null without a provider, null when
\* chrome or chrome.storage is missing, null from the catch block when the
\* storage call throws or rejects, else result[`${provider}_key`] as it is
getApiKey(provider, hostIs, st) ==
    IF provider = "" THEN Gives(Resolved(Null), st)
    ELSE IF hostIs \in {"chrome_undefined", "storage_missing"}
    THEN Gives(Resolved(Null), st)
    ELSE IF hostIs \in {"call_throws", "op_fails"}
    THEN Gives(Resolved(Null), st)
    ELSE Gives(Resolved(st[provider \o "_key"]), st)

\* fetchHandler.js setApiKey(provider, value)
setApiKey(provider, value, hostIs, st) ==
    IF provider = "" THEN Gives(Resolved(JsFalse), st)
    ELSE IF hostIs \in {"chrome_undefined", "storage_missing"}
    THEN Gives(Resolved(JsFalse), st)
    ELSE IF hostIs \in {"call_throws", "op_fails"}
    THEN Gives(Resolved(JsFalse), st)
    ELSE Gives(Resolved(JsTrue), [st EXCEPT ![provider \o "_key"] = value])

\* apiUtils.js self.getApiKey(provider): the body runs inside the Promise
\* executor, outside any try block. Evaluating the undeclared name chrome
\* throws a ReferenceError and a storage call that throws does so in the
\* executor: either way the promise is rejected. A missing chrome.storage
\* and chrome.runtime.lastError resolve to null, and so does a falsy item.
selfGetApiKey(provider, hostIs, st) ==
    IF provider = "" THEN Gives(Resolved(Null), st)
    ELSE IF hostIs = "chrome_undefined" THEN Gives(Raised("ReferenceError"), st)
    ELSE IF hostIs = "storage_missing" THEN Gives(Resolved(Null), st)
    ELSE IF hostIs = "call_throws" THEN Gives(Raised("Error"), st)
    ELSE IF hostIs = "op_fails" THEN Gives(Resolved(Null), st)
    ELSE IF ~Truthy(st[provider]) THEN Gives(Resolved(Null), st)
    ELSE Gives(Resolved(st[provider]), st)

\* apiUtils.js self.setApiKey(provider, key)
selfSetApiKey(provider, key, hostIs, st) ==
    IF provider = "" THEN Gives(Resolved(JsFalse), st)
    ELSE IF ~Truthy(key) \/ key.type # "string" THEN Gives(Resolved(JsFalse), st)
    ELSE IF hostIs = "chrome_undefined" THEN Gives(Raised("ReferenceError"), st)
    ELSE IF hostIs = "storage_missing" THEN Gives(Resolved(JsFalse), st)
    ELSE IF hostIs = "call_throws" THEN Gives(Raised("Error"), st)
    ELSE IF hostIs = "op_fails" THEN Gives(Resolved(JsFalse), st)
    ELSE Gives(Resolved(JsTrue), [st EXCEPT ![provider] = key])

\* apis.js getStoredApiKey(provider): everything happens inside try, the
\* catch block returns null; result[`${provider}_key`] || null
readStoredApiKey(provider, hostIs, st) ==
    IF hostIs # "ok" THEN Gives(Resolved(Null), st)
    ELSE IF ~Truthy(st[provider \o "_key"]) THEN Gives(Resolved(Null), st)
    ELSE Gives(Resolved(st[provider \o "_key"]), st)

\* no operation made yet; lastSet[p] is the value of the last setApiKey(p, _)
\* that reported success (Undefined: none has)
IdleCred ==
    [op |-> "none", provider |-> "", value |-> Undefined, host |-> "ok",
     outcome |-> Resolved(Undefined), lastSet |-> [p \in Providers |-> Undefined]]

\* an empty chrome.storage.local
EmptyStorage == [i \in Items |-> Undefined]

StoreAtRest ==
    /\ impl = "fetchHandler"
    /\ storage = EmptyStorage
    /\ cred = IdleCred

InitStore ==
    /\ impl \in Impls
    /\ storage = EmptyStorage
    /\ cred = IdleCred

\* a caller awaits setApiKey(provider, value)
SetApiKey(provider, value, hostIs) ==
    /\ LET r == IF impl = "fetchHandler"
                THEN setApiKey(provider, value, hostIs, storage)
                ELSE selfSetApiKey(provider, value, hostIs, storage)
       IN /\ storage' = r.storage
          /\ cred' = [op |-> "setApiKey", provider |-> provider, value |-> value,
                      host |-> hostIs, outcome |-> r.outcome,
                      lastSet |-> IF r.outcome = Resolved(JsTrue)
                                  THEN [cred.lastSet EXCEPT ![provider] = value]
                                  ELSE cred.lastSet]
    /\ UNCHANGED <<orchVars, rateVars, fetchVars, impl, bgVars, batchVars>>

\* a caller awaits getApiKey(provider)
GetApiKey(provider, hostIs) ==
    /\ LET r == IF impl = "fetchHandler"
                THEN getApiKey(provider, hostIs, storage)
                ELSE selfGetApiKey(provider, hostIs, storage)
       IN /\ storage' = r.storage
          /\ cred' = [cred EXCEPT !.op = "getApiKey", !.provider = provider,
                                  !.value = Undefined, !.host = hostIs,
                                  !.outcome = r.outcome]
    /\ UNCHANGED <<orchVars, rateVars, fetchVars, impl, bgVars, batchVars>>

\* the orchestrator awaits getStoredApiKey(provider)
GetStoredApiKey(provider, hostIs) ==
    /\ LET r == readStoredApiKey(provider, hostIs, storage)
       IN /\ storage' = r.storage
          /\ cred' = [cred EXCEPT !.op = "getStoredApiKey", !.provider = provider,
                                  !.value = Undefined, !.host = hostIs,
                                  !.outcome = r.outcome]
    /\ UNCHANGED <<orchVars, rateVars, fetchVars, impl, bgVars, batchVars>>

NextStore ==
    \/ \E p \in Providers, v \in Secrets, h \in HostConditions : SetApiKey(p, v, h)
    \/ \E p \in Providers, h \in HostConditions : GetApiKey(p, h)
    \/ \E p \in Providers, h \in HostConditions : GetStoredApiKey(p, h)

----------------------------------------------------------------------------
(* utils/fetchHandler.js: the rate limiter at the head of robustFetch *)

RATE_LIMIT_DELAY == 500

Callers == 1..NumCallers

\* the amounts of time that pass between two events
TickSteps == {250, 500}

IdleCaller == [pc |-> "idle", skipRateLimit |-> FALSE, wakeAt |-> 0, leftAt |-> 0]

\* the module is loaded long after the epoch: lastRequestTime = 0 lies more
\* than RATE_LIMIT_DELAY before the first Date.now()
InitRate ==
    /\ now = 2 * RATE_LIMIT_DELAY
    /\ lastRequestTime = 0
    /\ limiter = [p \in Callers |-> IdleCaller]

\* robustFetch(url, options) runs up to the first await: with skipRateLimit
\* it passes by the limiter; otherwise enforceRateLimit either stamps
\* lastRequestTime at once or starts to sleep for the time that is missing
EnterRobustFetch(p, skipRateLimit) ==
    /\ limiter[p].pc = "idle"
    /\ LET timeSinceLastRequest == now - lastRequestTime
           c == [limiter[p] EXCEPT !.skipRateLimit = skipRateLimit]
       IN IF skipRateLimit
          THEN /\ limiter' = [limiter EXCEPT ![p] =
                                [c EXCEPT !.pc = "started", !.leftAt = now]]
               /\ UNCHANGED lastRequestTime
          ELSE IF timeSinceLastRequest < RATE_LIMIT_DELAY
          THEN /\ limiter' = [limiter EXCEPT ![p] =
                                [c EXCEPT !.pc = "sleeping",
                                          !.wakeAt = now + (RATE_LIMIT_DELAY
                                                            - timeSinceLastRequest)]]
               /\ UNCHANGED lastRequestTime
          ELSE /\ limiter' = [limiter EXCEPT ![p] =
                                [c EXCEPT !.pc = "started", !.leftAt = now]]
               /\ lastRequestTime' = now
    /\ UNCHANGED now
    /\ UNCHANGED <<orchVars, fetchVars, storeVars, bgVars, batchVars>>

\* await sleep(waitTime) resolves: lastRequestTime = Date.now()
WakeFromRateLimit(p) ==
    /\ limiter[p].pc = "sleeping"
    /\ now >= limiter[p].wakeAt
    /\ lastRequestTime' = now
    /\ limiter' = [limiter EXCEPT ![p] = [@ EXCEPT !.pc = "started", !.leftAt = now]]
    /\ UNCHANGED now
    /\ UNCHANGED <<orchVars, fetchVars, storeVars, bgVars, batchVars>>

\* time passes, up to the next timer that is due: a timer fires on time
Tick(d) ==
    /\ now + d <= MaxTime
    /\ \A p \in Callers :
          limiter[p].pc = "sleeping" => now + d <= limiter[p].wakeAt
    /\ now' = now + d
    /\ UNCHANGED <<lastRequestTime, limiter>>
    /\ UNCHANGED <<orchVars, fetchVars, storeVars, bgVars, batchVars>>

NextRate ==
    \/ \E p \in Callers, skip \in BOOLEAN : EnterRobustFetch(p, skip)
    \/ \E p \in Callers : WakeFromRateLimit(p)
    \/ \E d \in TickSteps : Tick(d)

----------------------------------------------------------------------------
(* utils/fetchHandler.js: robustFetch behind the rate limiter *)

MAX_RETRIES == 3
RETRY_DELAY_BASE == 1000

RECURSIVE Pow2(_)
Pow2(n) == IF n <= 0 THEN 1 ELSE 2 * Pow2(n - 1)

\* Math.random() * 1000 lies in [0, 1000): its whole part, sampled at the ends
JitterSamples == {0, 999}

\* a variant with the exponent one too high
getRetryDelay_ExponentOff(attempt, jitter) ==
    RETRY_DELAY_BASE * Pow2(attempt) + jitter

\* RETRY_DELAY_BASE * Math.pow(2, attempt - 1) + Math.random() * 1000
getRetryDelay(attempt, jitter) ==
    RETRY_DELAY_BASE * Pow2(attempt - 1) + jitter

\* an error by what the catch block and shouldRetryError read of it:
\* its status, whether its message has one of the CORS patterns, and whether
\* its message or name has one of the retryableErrors
FetchError(kind, status, cors, named) ==
    [kind |-> kind, status |-> status, cors |-> cors, named |-> named]

NoFetchError == FetchError("none", 0, FALSE, FALSE)

HttpStatuses == {400, 401, 404, 408, 429, 500, 502, 503, 504}

\* Error(`HTTP ${status}: ...`) with error.status set
HttpError(status) == FetchError("http", status, FALSE, FALSE)

\* what fetch() rejects with: 'Failed to fetch', an AbortError after the
\* timeout, or a message with a CORS pattern
DirectErrors ==
    {HttpError(s) : s \in HttpStatuses}
      \cup {FetchError("network", 0, FALSE, TRUE),
            FetchError("abort", 0, FALSE, TRUE),
            FetchError("cors", 0, TRUE, FALSE)}

\* what the proxy promise rejects with: chrome.runtime.lastError or
\* response.error (any text), or 'Proxy request timed out'
ProxyErrors ==
    {FetchError("proxy_error", 0, FALSE, FALSE),
     FetchError("proxy_error", 0, FALSE, TRUE),
     FetchError("proxy_error", 0, TRUE, FALSE),
     FetchError("proxy_timeout", 0, FALSE, FALSE)}

\* Error('Background proxy not available')
ProxyUnavailable == FetchError("proxy_unavailable", 0, FALSE, FALSE)

AuthTypes == {"absent", "NONE", "API_KEY", "OAUTH2", "BASIC"}

\* the caller's retryCondition: none, or a predicate (here a constant one)
RetryConditions == {"none", "always", "never"}

retryableStatuses == {408, 429, 500, 502, 503, 504}

\* the default retry conditions: a retryableErrors text in the message or
\* name, or a status of retryableStatuses
DefaultRetryable(error) ==
    error.named \/ (error.status # 0 /\ error.status \in retryableStatuses)

\* a variant in which the caller's predicate adds to the default conditions
shouldRetryError_AddsToDefaults(error, customCondition) ==
    DefaultRetryable(error) \/ customCondition = "always"

\* a variant that asks for a retry whatever the error
shouldRetryError_RetriesAll(error, customCondition) == TRUE

\* a retryCondition function, when given, decides alone
shouldRetryError(error, customCondition) ==
    IF customCondition # "none"
    THEN customCondition = "always"
    ELSE DefaultRetryable(error)

\* what is kept of a failed attempt: whether its error meets the default
\* retry conditions and whether its message has a CORS pattern
Failure(error) == [retryable |-> DefaultRetryable(error), cors |-> error.cors]

IdleFetch ==
    [pc |-> "idle", maxRetries |-> 0, auth |-> "absent", keyStored |-> FALSE,
     retryCondition |-> "none", proxyAvailable |-> FALSE,
     attempt |-> 0, shouldUseProxy |-> FALSE, corsRetryAt |-> 0,
     directFetches |-> 0, proxyMessages |-> 0, slept |-> <<>>,
     modes |-> <<>>, failures |-> <<>>,
     lastError |-> NoFetchError, outcome |-> [kind |-> "none"]]

InitFetch == fetch = IdleFetch

\* a variant that checks the credential of API_KEY configurations only
MissingCredential_ApiKeyOnly(auth, keyStored) ==
    auth = "API_KEY" /\ ~keyStored

\* the two "if (!apiKey) throw" / "if (!token) throw" of the auth block
MissingCredential(auth, keyStored) ==
    auth \in {"API_KEY", "OAUTH2"} /\ ~keyStored

\* a variant that takes up the useProxy option again in each iteration
LoopHead_ForgetsProxy(f, attempt, delay) ==
    IF attempt > f.maxRetries
    THEN [f EXCEPT !.pc = "returned", !.outcome = [kind |-> "undefined"]]
    ELSE [f EXCEPT !.pc = "attempt", !.attempt = attempt,
                   !.slept = Append(@, delay), !.shouldUseProxy = FALSE]

\* a variant whose loop runs while attempt <= maxRetries + 1
LoopHead_OneMore(f, attempt, delay) ==
    IF attempt > f.maxRetries + 1
    THEN [f EXCEPT !.pc = "returned", !.outcome = [kind |-> "undefined"]]
    ELSE [f EXCEPT !.pc = "attempt", !.attempt = attempt,
                   !.slept = Append(@, delay)]

\* the head of a loop iteration: for (...; attempt <= maxRetries; ...)
\* leaves the loop, and the function returns nothing, when the bound is passed
LoopHead(f, attempt, delay) ==
    IF attempt > f.maxRetries
    THEN [f EXCEPT !.pc = "returned", !.outcome = [kind |-> "undefined"]]
    ELSE [f EXCEPT !.pc = "attempt", !.attempt = attempt,
                   !.slept = Append(@, delay)]

\* robustFetch(url, options), past the rate limiter, up to the auth block
CallRobustFetch(maxRetries, auth, keyStored, retryCondition, useProxy, proxyAvailable) ==
    /\ fetch.pc = "idle"
    /\ fetch' = [IdleFetch EXCEPT !.pc = "auth", !.maxRetries = maxRetries,
                    !.auth = auth, !.keyStored = keyStored,
                    !.retryCondition = retryCondition,
                    !.shouldUseProxy = useProxy,
                    !.proxyAvailable = proxyAvailable]
    /\ UNCHANGED <<orchVars, rateVars, storeVars, bgVars, batchVars>>

\* the auth block: await getApiKey(...) resolves
ApplyAuthentication ==
    /\ fetch.pc = "auth"
    /\ IF MissingCredential(fetch.auth, fetch.keyStored)
       THEN fetch' = [fetch EXCEPT !.pc = "thrown",
                         !.outcome = [kind |-> "auth_error"]]
       ELSE fetch' = LoopHead(fetch, 1, 0)
    /\ UNCHANGED <<orchVars, rateVars, storeVars, bgVars, batchVars>>

\* the try block up to its await: the request goes to the proxy or to
\* fetch(); without chrome.runtime.sendMessage the proxy branch throws
\* before anything is sent. modes keeps the branch each attempt took.
IssueRequest ==
    /\ fetch.pc = "attempt"
    /\ IF fetch.shouldUseProxy
       THEN IF fetch.proxyAvailable
            THEN fetch' = [fetch EXCEPT !.pc = "proxy", !.proxyMessages = @ + 1,
                                        !.modes = Append(@, "proxy")]
            ELSE fetch' = [fetch EXCEPT !.pc = "caught",
                                        !.lastError = ProxyUnavailable,
                                        !.modes = Append(@, "proxy"),
                                        !.failures = Append(@, Failure(ProxyUnavailable))]
       ELSE fetch' = [fetch EXCEPT !.pc = "direct", !.directFetches = @ + 1,
                                   !.modes = Append(@, "direct")]
    /\ UNCHANGED <<orchVars, rateVars, storeVars, bgVars, batchVars>>

\* a 2xx response arrives and is parsed, or the proxy answers
RequestSucceeds ==
    /\ fetch.pc \in {"direct", "proxy"}
    /\ fetch' = [fetch EXCEPT !.pc = "returned",
                    !.outcome = [kind |-> IF fetch.pc = "direct"
                                          THEN "response" ELSE "proxyResponse",
                                 attempt |-> fetch.attempt]]
    /\ UNCHANGED <<orchVars, rateVars, storeVars, bgVars, batchVars>>

\* the request fails: a non-2xx response, a rejected fetch or proxy promise
RequestFails(error) ==
    /\ \/ fetch.pc = "direct" /\ error \in DirectErrors
       \/ fetch.pc = "proxy" /\ error \in ProxyErrors
    /\ fetch' = [fetch EXCEPT !.pc = "caught", !.lastError = error,
                               !.failures = Append(@, Failure(error))]
    /\ UNCHANGED <<orchVars, rateVars, storeVars, bgVars, batchVars>>

\* the catch block: the switch to the proxy, the backoff sleep, or the final
\* failure, whose log statement reads startTime, a const of the try block
\* that is not in scope here, so that a ReferenceError leaves the function
CatchBlock(jitter) ==
    /\ fetch.pc = "caught"
    /\ LET error         == fetch.lastError
           isLastAttempt == fetch.attempt = fetch.maxRetries
           isCorsError   == error.cors
           shouldRetry   == ~isLastAttempt
                            /\ shouldRetryError(error, fetch.retryCondition)
       IN IF isCorsError /\ ~fetch.shouldUseProxy /\ fetch.attempt = 1
          THEN fetch' = LoopHead([fetch EXCEPT !.shouldUseProxy = TRUE,
                                               !.corsRetryAt = fetch.attempt],
                                 fetch.attempt + 1, 0)
          ELSE IF shouldRetry
          THEN fetch' = [fetch EXCEPT !.pc = "backoff",
                            !.outcome = [kind |-> "sleep",
                                         delay |-> getRetryDelay(fetch.attempt, jitter)]]
          ELSE fetch' = [fetch EXCEPT !.pc = "thrown",
                            !.outcome = [kind |-> "ReferenceError"]]
    /\ UNCHANGED <<orchVars, rateVars, storeVars, bgVars, batchVars>>

\* await sleep(delay) resolves; continue
BackoffEnds ==
    /\ fetch.pc = "backoff"
    /\ fetch' = LoopHead([fetch EXCEPT !.outcome = [kind |-> "none"]],
                         fetch.attempt + 1, fetch.outcome.delay)
    /\ UNCHANGED <<orchVars, rateVars, storeVars, bgVars, batchVars>>

NextFetch ==
    \/ \E m \in 0..MaxRetriesOpt, a \in AuthTypes, k \in BOOLEAN,
          r \in RetryConditions, u \in BOOLEAN, pa \in BOOLEAN :
          CallRobustFetch(m, a, k, r, u, pa)
    \/ ApplyAuthentication
    \/ IssueRequest
    \/ RequestSucceeds
    \/ \E e \in DirectErrors \cup ProxyErrors : RequestFails(e)
    \/ \E j \in JitterSamples : CatchBlock(j)
    \/ BackoffEnds

----------------------------------------------------------------------------
(* utils/fetchHandler.js: batchRequests *)

\* the requests of a batch, by their place in the array
BatchRequests == 1..MaxRequests

\* Array.prototype.indexOf: the zero-based place of x in seq, -1 when absent
indexOf(seq, x) ==
    IF \E k \in 1..Len(seq) : seq[k] = x
    THEN (CHOOSE k \in 1..Len(seq) :
             seq[k] = x /\ \A j \in 1..(k - 1) : seq[j] # x) - 1
    ELSE -1

\* Array.prototype.splice(start, 1): a negative start counts from the end
splice(seq, start) ==
    LET from == IF start < 0
                THEN (IF Len(seq) + start < 0 THEN 0 ELSE Len(seq) + start)
                ELSE Min(start, Len(seq))
    IN IF from >= Len(seq)
       THEN seq
       ELSE SubSeq(seq, 1, from) \o SubSeq(seq, from + 2, Len(seq))

\* a limit test that lets one more request through
AtLimit_Above(executing, maxConcurrency) == Len(executing) > maxConcurrency

\* if (executing.length >= maxConcurrency)
AtLimit(executing, maxConcurrency) == Len(executing) >= maxConcurrency

\* no batchRequests call has been made.  status: where each request is
\* ("unstarted", "inFlight": executeRequest is running, "settled": its
\* promise has settled and the then-callback has yet to run, "done": the
\* callback has run and the promise kept in results has settled);
\* executing: the array of that name; raceSettled: a promise of the awaited
\* Promise.race has settled
IdleBatch ==
    [pc |-> "idle", requests |-> 0, maxConcurrency |-> 0, next |-> 1,
     status |-> [i \in BatchRequests |-> "unstarted"],
     executing |-> <<>>, raceSettled |-> FALSE]

BatchAtRest == batch = IdleBatch

\* the for loop from request b.next on, up to its next await or its end
RECURSIVE RunLoop(_)
RunLoop(b) ==
    IF b.next > b.requests
    THEN [b EXCEPT !.pc = "allSettled"]
    ELSE LET started == [b EXCEPT !.status[b.next] = "inFlight",
                                  !.executing = Append(@, b.next),
                                  !.next = @ + 1]
         IN IF AtLimit(started.executing, started.maxConcurrency)
            THEN [started EXCEPT !.pc = "race", !.raceSettled = FALSE]
            ELSE RunLoop(started)

\* a caller calls batchRequests(requests, maxConcurrency) with n requests
CallBatchRequests(n, maxConcurrency) ==
    /\ batch.pc \in {"idle", "returned"}
    /\ batch' = RunLoop([IdleBatch EXCEPT !.pc = "loop", !.requests = n,
                                          !.maxConcurrency = maxConcurrency])
    /\ UNCHANGED <<orchVars, rateVars, fetchVars, storeVars, bgVars>>

\* executeRequest(request) returns: its try/catch turns a failure into a
\* value, so its promise is fulfilled either way
ExecuteRequestSettles(i) ==
    /\ batch.status[i] = "inFlight"
    /\ batch' = [batch EXCEPT !.status[i] = "settled"]
    /\ UNCHANGED <<orchVars, rateVars, fetchVars, storeVars, bgVars>>

\* the then-callback of request i runs: it takes the promise out of
\* executing, and the promise settles with the result
ThenCallback(i) ==
    /\ batch.status[i] = "settled"
    /\ batch' = [batch EXCEPT
                   !.status[i] = "done",
                   !.executing = splice(@, indexOf(@, i)),
                   !.raceSettled = @ \/ batch.pc = "race"]
    /\ UNCHANGED <<orchVars, rateVars, fetchVars, storeVars, bgVars>>

\* await Promise.race(executing) resumes and the loop goes on
RaceResumes ==
    /\ batch.pc = "race"
    /\ batch.raceSettled
    /\ batch' = RunLoop([batch EXCEPT !.pc = "loop", !.raceSettled = FALSE])
    /\ UNCHANGED <<orchVars, rateVars, fetchVars, storeVars, bgVars>>

\* Promise.allSettled(results) settles and batchRequests returns
AllSettled ==
    /\ batch.pc = "allSettled"
    /\ \A i \in 1..batch.requests : batch.status[i] = "done"
    /\ batch' = [batch EXCEPT !.pc = "returned"]
    /\ UNCHANGED <<orchVars, rateVars, fetchVars, storeVars, bgVars>>

NextBatch ==
    \/ \E n \in 0..MaxRequests, m \in 0..MaxConcurrencyOpt :
          CallBatchRequests(n, m)
    \/ \E i \in BatchRequests : ExecuteRequestSettles(i)
    \/ \E i \in BatchRequests : ThenCallback(i)
    \/ RaceResumes
    \/ AllSettled

----------------------------------------------------------------------------
(* background.js: usage tracking and the 'scan' message *)

\* return count < 5
USAGE_LIMIT == 5

\* the 'scan' messages that can be in handling at once
Scans == 1..NumScans

IdleScan == [pc |-> "idle", read |-> 0, newCount |-> 0]

\* pagesAnalyzedCount: the item in chrome.storage.local, which
\* initializeUsageTracking has set to 0; scan: each handler's position;
\* admitted (not in the code): the scans since the last reset that went on
\* to analyzePage; resets (not in the code): the resets handled
UsageAtRest ==
    [pagesAnalyzedCount |-> 0, admitted |-> 0, resets |-> 0,
     scan |-> [s \in Scans |-> IdleScan]]

\* a 'scan' message arrives: its handler runs up to the storage read of
\* checkUsageLimit
ScanMessage(s) ==
    /\ usage.scan[s].pc \in {"idle", "limitReached", "answered"}
    /\ usage.admitted < MaxAdmitted
    /\ usage' = [usage EXCEPT !.scan[s] = [IdleScan EXCEPT !.pc = "checkUsageLimit"]]
    /\ UNCHANGED <<orchVars, rateVars, fetchVars, storeVars, analysis, batchVars>>

\* checkUsageLimit's read returns: under the limit the handler goes on to
\* the storage read of incrementUsageCount, else it answers limitReached
CheckUsageLimit(s) ==
    /\ usage.scan[s].pc = "checkUsageLimit"
    /\ usage' = [usage EXCEPT
                   !.scan[s].pc = IF usage.pagesAnalyzedCount < USAGE_LIMIT
                                  THEN "incrementGet"
                                  ELSE "limitReached"]
    /\ UNCHANGED <<orchVars, rateVars, fetchVars, storeVars, analysis, batchVars>>

\* incrementUsageCount's read returns: newCount = count + 1, and the
\* handler waits for the write
IncrementGet(s) ==
    /\ usage.scan[s].pc = "incrementGet"
    /\ usage' = [usage EXCEPT
                   !.scan[s].pc = "incrementSet",
                   !.scan[s].read = usage.pagesAnalyzedCount,
                   !.scan[s].newCount = usage.pagesAnalyzedCount + 1]
    /\ UNCHANGED <<orchVars, rateVars, fetchVars, storeVars, analysis, batchVars>>

\* incrementUsageCount's write is done: the handler calls analyzePage
IncrementSet(s) ==
    /\ usage.scan[s].pc = "incrementSet"
    /\ usage' = [usage EXCEPT
                   !.pagesAnalyzedCount = usage.scan[s].newCount,
                   !.admitted = @ + 1,
                   !.scan[s].pc = "analyzePage"]
    /\ UNCHANGED <<orchVars, rateVars, fetchVars, storeVars, analysis, batchVars>>

\* analyzePage returns or throws: the handler answers with the result or
\* the error
ScanAnswered(s) ==
    /\ usage.scan[s].pc = "analyzePage"
    /\ usage' = [usage EXCEPT !.scan[s].pc = "answered"]
    /\ UNCHANGED <<orchVars, rateVars, fetchVars, storeVars, analysis, batchVars>>

\* a 'reset_usage_count' message is handled
ResetUsageCount ==
    /\ usage.resets < MaxResets
    /\ usage' = [usage EXCEPT !.pagesAnalyzedCount = 0, !.admitted = 0,
                              !.resets = @ + 1]
    /\ UNCHANGED <<orchVars, rateVars, fetchVars, storeVars, analysis, batchVars>>

NextUsage ==
    \/ \E s \in Scans : ScanMessage(s)
    \/ \E s \in Scans : CheckUsageLimit(s)
    \/ \E s \in Scans : IncrementGet(s)
    \/ \E s \in Scans : IncrementSet(s)
    \/ \E s \in Scans : ScanAnswered(s)
    \/ ResetUsageCount

----------------------------------------------------------------------------
(* background.js: analyzePage and its queue *)

\* the analyzePage calls, numbered in the order they are made
Analyses == 1..MaxAnalyses

\* what a caller passes as features: the 'scan' handler and the action
\* click pass an object, the 'analyze_page' handler passes request.features,
\* which a message may lack
FeatureInputs == {"object", "undefined"}

\* pc: "none", "queued", "running", "resolved" (the caller's promise is
\* fulfilled), "rejected" (the caller's promise is rejected), "pending"
\* (taken from the queue, its analysis is over and nothing will settle the
\* caller's promise)
NoAnalysis == [pc |-> "none", features |-> "object"]

AnalysisAtRest ==
    [isProcessing |-> FALSE, analysisQueue |-> <<>>, made |-> 0,
     call |-> [r \in Analyses |-> NoAnalysis]]

BackgroundAtRest ==
    /\ usage = UsageAtRest
    /\ analysis = AnalysisAtRest

\* analyzePage(features) up to its first await, for call r, with isProcessing
\* false: features.tabId throws a TypeError when features is undefined, and
\* the catch block clears isProcessing and rethrows.  A call made for a
\* queue entry is chained with then(next.resolve) alone, so its rejection
\* settles nothing
StartAnalysis(a, r, fromQueue) ==
    IF a.call[r].features = "undefined"
    THEN [a EXCEPT !.isProcessing = FALSE,
                   !.call[r].pc = IF fromQueue THEN "pending" ELSE "rejected"]
    ELSE [a EXCEPT !.isProcessing = TRUE, !.call[r].pc = "running"]

\* a caller calls analyzePage(features): the call is queued while another
\* analysis is in progress, else it starts
AnalyzePage(features) ==
    /\ analysis.made < MaxAnalyses
    /\ LET r == analysis.made + 1
           a == [analysis EXCEPT !.made = r, !.call[r].features = features]
       IN analysis' = IF analysis.isProcessing
                      THEN [a EXCEPT !.analysisQueue = Append(@, r),
                                     !.call[r].pc = "queued"]
                      ELSE StartAnalysis(a, r, FALSE)
    /\ UNCHANGED <<orchVars, rateVars, fetchVars, storeVars, usage, batchVars>>

\* the running analysis r has its response (the backend's or the local
\* one): it clears isProcessing, starts the head of the queue and returns
AnalysisCompletes(r) ==
    /\ analysis.call[r].pc = "running"
    /\ LET a == [analysis EXCEPT !.isProcessing = FALSE,
                                 !.call[r].pc = "resolved"]
       IN analysis' = IF Len(a.analysisQueue) > 0
                      THEN StartAnalysis(
                               [a EXCEPT !.analysisQueue = Tail(@)],
                               Head(a.analysisQueue), TRUE)
                      ELSE a
    /\ UNCHANGED <<orchVars, rateVars, fetchVars, storeVars, usage, batchVars>>

NextAnalysis ==
    \/ \E f \in FeatureInputs : AnalyzePage(f)
    \/ \E r \in Analyses : AnalysisCompletes(r)

----------------------------------------------------------------------------
(* batchRequests, the scan handlers and the analysis queue on their own *)

InitIdle ==
    /\ catalog = "shipped"
    /\ keys = {}
    /\ smart = IdleSmart
    /\ calls = [s \in Slots |-> IdleCall]
    /\ health = IdleHealth
    /\ InitRate
    /\ InitFetch
    /\ StoreAtRest
    /\ BackgroundAtRest
    /\ BatchAtRest

SpecBatch == InitIdle /\ [][NextBatch]_vars

SpecUsage == InitIdle /\ [][NextUsage]_vars

\* a running analysis waits for the tab, the screenshot and the backend;
\* each of them answers or fails, and a failure is caught, so the analysis
\* gets its response
SpecAnalysis ==
    /\ InitIdle
    /\ [][NextAnalysis]_vars
    /\ WF_vars(\E r \in Analyses : AnalysisCompletes(r))

----------------------------------------------------------------------------
(* The transport on its own *)

InitFetchOnly ==
    /\ catalog = "shipped"
    /\ keys = {}
    /\ smart = IdleSmart
    /\ calls = [s \in Slots |-> IdleCall]
    /\ health = IdleHealth
    /\ InitRate
    /\ InitFetch
    /\ StoreAtRest
    /\ BackgroundAtRest
    /\ BatchAtRest

SpecFetch == InitFetchOnly /\ [][NextFetch]_vars

----------------------------------------------------------------------------
(* The credential store on its own *)

InitStoreOnly ==
    /\ catalog = "shipped"
    /\ keys = {}
    /\ smart = IdleSmart
    /\ calls = [s \in Slots |-> IdleCall]
    /\ health = IdleHealth
    /\ InitRate
    /\ InitFetch
    /\ InitStore
    /\ BackgroundAtRest
    /\ BatchAtRest

SpecStore == InitStoreOnly /\ [][NextStore]_vars

----------------------------------------------------------------------------
(* The rate limiter under concurrent callers *)

InitRateOnly ==
    /\ catalog = "shipped"
    /\ keys = {}
    /\ smart = IdleSmart
    /\ calls = [s \in Slots |-> IdleCall]
    /\ health = IdleHealth
    /\ InitRate
    /\ InitFetch
    /\ StoreAtRest
    /\ BackgroundAtRest
    /\ BatchAtRest

SpecRate == InitRateOnly /\ [][NextRate]_vars

\* C1: two robustFetch calls that do not skip the rate limiter leave it at
\* instants that are at least RATE_LIMIT_DELAY apart.
C1_StartsAtLeastDelayApart ==
    \A p, q \in Callers :
       (/\ p # q
        /\ limiter[p].pc = "started" /\ ~limiter[p].skipRateLimit
        /\ limiter[q].pc = "started" /\ ~limiter[q].skipRateLimit
        /\ limiter[p].leftAt <= limiter[q].leftAt)
       => limiter[q].leftAt - limiter[p].leftAt >= RATE_LIMIT_DELAY


----------------------------------------------------------------------------
(* The orchestrator over the shipped registry *)

UnknownApiId == "no_such_api"

ApiIdInputs == DOMAIN API_REGISTRY \cup {UnknownApiId}

InitOrch ==
    /\ keys \in SUBSET KeyTypes
    /\ smart = IdleSmart
    /\ calls = [s \in Slots |-> IdleCall]
    /\ health = IdleHealth

Init ==
    /\ catalog = "shipped"
    /\ InitOrch
    /\ InitRate
    /\ InitFetch
    /\ StoreAtRest
    /\ BackgroundAtRest
    /\ BatchAtRest

Next ==
    \/ \E apiId \in ApiIdInputs : DirectCall(apiId)
    \/ \E q \in Queries, m \in BOOLEAN, n \in 0..MaxApisOpt :
          SmartApiSelection(q, m, n)
    \/ \E s \in Slots : CheckAvailable(s)
    \/ \E s \in Slots : HandlerSucceeds(s)
    \/ \E s \in Slots : HandlerFails(s)
    \/ MultiReturns
    \/ SingleReturns
    \/ CheckAllApisHealth
    \/ ProbeApi

Spec == Init /\ [][Next]_vars

\* the same orchestrator over a catalog with a misspelt fallback id
InitCfg ==
    /\ catalog \in {"typo_mid", "typo_last"}
    /\ InitOrch
    /\ InitRate
    /\ InitFetch
    /\ StoreAtRest
    /\ BackgroundAtRest
    /\ BatchAtRest

SpecCfg == InitCfg /\ [][Next]_vars

----------------------------------------------------------------------------
(* Properties of executeApiWithFallback *)

Range(seq) == {seq[i] : i \in 1..Len(seq)}

\* the chain the shipped catalog prescribes for a request of apiId
Chain(apiId) == <<apiId>> \o API_REGISTRY[apiId].fallbacks

\* the credential store holds what the shipped entry of id requires
HasRequiredKey(id) ==
    ~API_REGISTRY[id].requiresKey \/ API_REGISTRY[id].keyType \in keys

\* the activations of executeApiWithFallback for an id of the catalog
Running(s) == calls[s].pc # "idle" /\ calls[s].apiId \in DOMAIN API_REGISTRY

\* C2: the candidates are tried in the order [apiId] ++ fallbacks, each at
\* most once: what has been tried is a prefix of the chain, the handlers
\* invoked are those of the tried candidates that have their key, in chain
\* order and without repetition, a success comes from the candidate tried
\* last, and the call fails only after the whole chain has been tried.
C2_CandidatesInChainOrder ==
    \A s \in Slots : Running(s) =>
       LET c == calls[s]
       IN /\ c.callStack = Chain(c.apiId)
          /\ Len(c.tried) <= Len(c.callStack)
          /\ c.tried = SubSeq(c.callStack, 1, Len(c.tried))
          /\ c.invoked = SelectSeq(c.tried, HasRequiredKey)
          /\ \A i, j \in 1..Len(c.invoked) :
                i # j => c.invoked[i] # c.invoked[j]
          /\ c.pc = "handler" =>
                c.invoked[Len(c.invoked)] = c.tried[Len(c.tried)]
          /\ c.pc = "returned" => c.result.api = c.tried[Len(c.tried)]
          /\ c.pc = "thrown" => c.tried = c.callStack

\* a call that failed after invoking the handlers of a chain of three
C2_Witness ==
    \E s \in Slots :
       /\ Running(s)
       /\ calls[s].pc = "thrown"
       /\ Len(calls[s].callStack) = 3
       /\ Len(calls[s].invoked) = 3

\* C3: a candidate that requires a key the store does not hold never has
\* its handler invoked, and the loop goes on to the candidate behind it (or
\* the call fails, when it was the last of the chain).
C3_MissingKeySkipsHandler ==
    \A s \in Slots : Running(s) =>
       LET c == calls[s]
       IN \A i \in 1..Len(c.tried) :
             ~HasRequiredKey(c.tried[i]) =>
                /\ c.tried[i] \notin Range(c.invoked)
                /\ IF i < Len(Chain(c.apiId))
                   THEN IF Len(c.tried) > i
                        THEN c.tried[i + 1] = Chain(c.apiId)[i + 1]
                        ELSE /\ c.pc = "check"
                             /\ c.callStack[c.idx] = Chain(c.apiId)[i + 1]
                   ELSE c.pc = "thrown"

\* the primary lacks its key and the handler of its fallback was invoked
C3_Witness ==
    \E s \in Slots :
       /\ Running(s)
       /\ Len(calls[s].tried) >= 2
       /\ ~HasRequiredKey(calls[s].tried[1])
       /\ calls[s].invoked = <<calls[s].tried[2]>>

\* C4: a call that fails with every candidate failed raises 'All APIs
\* failed' carrying the failure of the last candidate of the chain.
C4_LastErrorIsLastCandidates ==
    \A s \in Slots : (Running(s) /\ calls[s].pc = "thrown") =>
       LET c    == calls[s]
           last == Chain(c.apiId)[Len(Chain(c.apiId))]
       IN /\ c.result.kind = "all_failed"
          /\ c.result.last = (IF HasRequiredKey(last)
                              THEN HandlerError(last) ELSE KeyError(last))

\* a failed call whose first candidate failed in another way than its last
C4_Witness ==
    \E s \in Slots :
       /\ Running(s)
       /\ calls[s].pc = "thrown"
       /\ Len(calls[s].callStack) >= 2
       /\ calls[s].invoked # <<>>
       /\ calls[s].invoked[1] = calls[s].apiId
       /\ calls[s].result.last.kind = "nokey"

\* C6: a success has wasFallback = TRUE exactly when the provider that
\* produced the data, the one whose handler was invoked last, is not the
\* requested one.
C6_WasFallbackIffOtherProvider ==
    \A s \in Slots : (Running(s) /\ calls[s].pc = "returned") =>
       LET c == calls[s]
       IN /\ c.result.api = c.invoked[Len(c.invoked)]
          /\ c.result.wasFallback = (c.result.api # c.apiId)

\* a success of a fallback provider
C6_Witness ==
    \E s \in Slots :
       /\ Running(s)
       /\ calls[s].pc = "returned"
       /\ calls[s].result.api # calls[s].apiId
       /\ calls[s].result.wasFallback

----------------------------------------------------------------------------
(* Properties of smartApiSelection *)

WeatherKeys == {"openweather", "rapidapi"}

\* C5: 'weather in Paris' with useMultiple = false and a credential for
\* exactly one weather provider returns one entry, with wasFallback = false.
C5_WeatherInParisOneEntry ==
    (/\ smart.pc = "returned"
     /\ smart.mode \in {"single", "multi"}
     /\ smart.query = "weather in Paris"
     /\ ~smart.useMultiple
     /\ Cardinality(keys \cap WeatherKeys) = 1)
    => /\ Len(smart.outcome.results) = 1
       /\ smart.outcome.results[1].success
       /\ ~smart.outcome.results[1].wasFallback

\* the ids an intent maps to, primary and fallback
IntentApiIds(intent) ==
    Range(INTENT_MAPPINGS[intent].primary) \cup Range(INTENT_MAPPINGS[intent].fallback)

\* C10: when no provider of the classified intent has its credential,
\* smartApiSelection raises the 'no available provider' error and invokes
\* no handler.
C10_NoAvailableProviderError ==
    (/\ smart.mode \in {"single", "multi"} \/ smart.outcome.kind = "no_available_apis"
     /\ smart.query # ""
     /\ \A id \in IntentApiIds(smart.intent) : ~HasRequiredKey(id))
    => /\ smart.pc = "thrown"
       /\ smart.outcome.kind = "no_available_apis"
       /\ \A s \in Slots : calls[s].pc = "idle"

----------------------------------------------------------------------------
(* Properties of the fallback loop over a catalog with a misspelt id *)

\* C9: an id of the chain that is not a key of the registry is surfaced as
\* a configuration error: once the loop has reached such an id the call has
\* failed with that error, it has not gone on behind it.
C9_UnknownFallbackIdSurfaced ==
    \A s \in Slots :
       LET c == calls[s]
       IN \A i \in 1..Len(c.callStack) :
             (c.callStack[i] \notin DOMAIN Registry /\ c.idx > i) =>
                c.pc = "thrown" /\ c.result.kind = "unknown_api"

----------------------------------------------------------------------------
(* Properties of robustFetch *)

\* the interval the claim gives for the delay before attempt n >= 2
InBackoffInterval(n, delay) ==
    /\ RETRY_DELAY_BASE * Pow2(n - 2) <= delay
    /\ delay < RETRY_DELAY_BASE * Pow2(n - 2) + RETRY_DELAY_BASE

\* C7 as stated: no delay precedes attempt 1, and every attempt n >= 2 that
\* takes place is preceded by a delay in [base*2^(n-2), base*2^(n-2) + base).
C7_EveryLaterAttemptDelayed ==
    \A n \in 1..Len(fetch.slept) :
       IF n = 1 THEN fetch.slept[n] = 0
       ELSE InBackoffInterval(n, fetch.slept[n])

\* C7: no delay precedes attempt 1; attempt 2 follows at once when attempt 1
\* ended with a cross-origin error that switched the call to the proxy; every
\* other attempt n >= 2 is preceded by a delay in
\* [base*2^(n-2), base*2^(n-2) + base).
C7_RetryDelayBounds ==
    \A n \in 1..Len(fetch.slept) :
       IF n = 1 \/ fetch.corsRetryAt = n - 1 THEN fetch.slept[n] = 0
       ELSE InBackoffInterval(n, fetch.slept[n])

\* a call in its fourth attempt, all of them reached through the backoff
C7_Witness ==
    /\ fetch.attempt = 4
    /\ fetch.corsRetryAt = 0
    /\ Len(fetch.slept) = 4

\* C8: with an API_KEY or OAUTH2 configuration and no stored credential the
\* call has failed with the authentication error as soon as the auth block
\* is over, and no request was sent, neither directly nor to the proxy.
C8_MissingCredentialNoRequest ==
    (fetch.pc # "idle" /\ fetch.auth \in {"API_KEY", "OAUTH2"} /\ ~fetch.keyStored)
    => /\ fetch.directFetches = 0
       /\ fetch.proxyMessages = 0
       /\ fetch.pc \in {"auth", "thrown"}
       /\ fetch.pc = "thrown" => fetch.outcome.kind = "auth_error"

\* an OAUTH2 call without a token that has raised the authentication error
C8_Witness ==
    /\ fetch.pc = "thrown"
    /\ fetch.auth = "OAUTH2"
    /\ ~fetch.keyStored
    /\ fetch.outcome.kind = "auth_error"

----------------------------------------------------------------------------
(* Properties of provider selection, of the catalog and of the classifier *)

\* the ids of seq that have their required credential
IdsWithKey(seq) == {id \in Range(seq) : HasRequiredKey(id)}

\* C11: without includeUnavailable, getApisForIntent returns only providers
\* whose required credential is stored, and it returns providers of the
\* fallback list exactly when no primary provider passes that filter: the
\* primary entries are the primary providers that have their key, and the
\* fallback entries are the fallback providers that have their key when no
\* primary provider has one, none otherwise.
C11_OnlyProvidersWithCredential ==
    smart.intent # "none" =>
       LET apis == smart.availableApis
           mapping == INTENT_MAPPINGS[smart.intent]
           OfType(t) == {apis[i].id : i \in {j \in 1..Len(apis) : apis[j].type = t}}
       IN /\ \A i \in 1..Len(apis) : HasRequiredKey(apis[i].id)
          /\ OfType("primary") = IdsWithKey(mapping.primary)
          /\ OfType("fallback") = IF IdsWithKey(mapping.primary) = {}
                                  THEN IdsWithKey(mapping.fallback) ELSE {}

\* the ids an entry lists as its fallbacks
FallbackSuccessors(id) ==
    IF id \in DOMAIN API_REGISTRY THEN Range(API_REGISTRY[id].fallbacks) ELSE {}

\* the ids reached from ids in at most n further steps along fallbacks
RECURSIVE ReachableIn(_, _)
ReachableIn(ids, n) ==
    IF n = 0 THEN ids
    ELSE ReachableIn(ids \cup UNION {FallbackSuccessors(id) : id \in ids}, n - 1)

\* for each id of the catalog, the ids reachable from it by following
\* fallbacks one or more times
FallbackClosure ==
    [id \in DOMAIN API_REGISTRY |->
       ReachableIn(FallbackSuccessors(id), Cardinality(DOMAIN API_REGISTRY))]

\* C13: the fallbacks relation of the shipped catalog has no cycle: no id of
\* the loaded catalog is reachable from itself by following fallbacks.
C13_NoFallbackCycle ==
    catalog = "shipped" =>
       \A id \in DOMAIN Registry : id \notin FallbackClosure[id]

\* a call has walked a chain whose members have fallbacks of their own
C13_Witness ==
    /\ catalog = "shipped"
    /\ \E s \in Slots :
          /\ calls[s].apiId = "serpapi_google"
          /\ calls[s].tried = <<"serpapi_google", "wikipedia_search", "duckduckgo_instant">>
    /\ "duckduckgo_instant" \in FallbackClosure["wikipedia_search"]
    /\ "wikipedia_search" \in FallbackClosure["serpapi_google"]

\* the score of each category on each query of the model: the summed
\* lengths of the category's keywords the lower-cased query contains
Score ==
    [q \in Queries |->
       [intent \in DOMAIN INTENT_MAPPINGS |->
          KeywordScore(toLowerCase(Chars(q)), INTENT_MAPPINGS[intent].keywords, 1)]]

\* C14: the alternatives detectIntent returns are exactly the categories
\* other than the winner whose score is above zero, each once, with its
\* score over the query length as confidence, in descending order of
\* score; and 'latest AI news' is classified as news.
C14_AlternativesAreOtherScoredIntents ==
    smart.intent # "none" =>
       LET r == smart.intentResult
           alts == r.alternatives
           scored == {i \in DOMAIN INTENT_MAPPINGS : Score[smart.query][i] > 0}
       IN /\ {alts[i].intent : i \in 1..Len(alts)} = scored \ {r.intent}
          /\ Len(alts) = Cardinality(scored \ {r.intent})
          /\ \A i \in 1..Len(alts) :
                alts[i].confidence = Confidence(Score[smart.query][alts[i].intent],
                                                Len(Chars(smart.query)))
          /\ \A i, j \in 1..Len(alts) :
                i < j => alts[i].confidence.num >= alts[j].confidence.num
          /\ smart.query = "latest AI news" => r.intent = "news"

\* a query that scores in three categories: two alternatives, the higher
\* score first although it is declared later
C14_Witness ==
    /\ smart.query = "find latest weather forecast"
    /\ smart.intentResult.intent = "weather"
    /\ Len(smart.intentResult.alternatives) = 2
    /\ smart.intentResult.alternatives[1].intent = "news"
    /\ smart.intentResult.alternatives[2].intent = "search"

----------------------------------------------------------------------------
(* Properties of checkAllApisHealth *)

\* C17: checkAllApisHealth returns exactly one entry per id of the catalog,
\* whose available flag is (the entry needs no key) or (a key of its keyType
\* is stored), and while it runs no executeApiWithFallback activation is
\* started, so no handler is invoked.
C17_HealthOneEntryPerId ==
    /\ health.pc # "idle" => \A s \in Slots : calls[s] = IdleCall
    /\ health.pc = "returned" =>
          /\ DOMAIN health.healthResults = DOMAIN Registry
          /\ \A id \in DOMAIN Registry :
                health.healthResults[id].available
                   = (~Registry[id].requiresKey \/ Registry[id].keyType \in keys)

\* a report with available providers of both kinds and an unavailable one
C17_Witness ==
    /\ health.pc = "returned"
    /\ keys = {"serpapi"}
    /\ health.healthResults["serpapi_google"].available
    /\ health.healthResults["wikipedia_search"].available
    /\ ~health.healthResults["omdb_search"].available

----------------------------------------------------------------------------
(* Properties of the credential store *)

\* C12: after setApiKey(name, value) has reported success and with no other
\* write to that name since, a getApiKey(name) that reads a working storage
\* returns exactly value, for every name and value of either implementation.
C12_SetThenGetReturnsValue ==
    (/\ cred.op = "getApiKey"
     /\ cred.host = "ok"
     /\ cred.lastSet[cred.provider] # Undefined)
    => cred.outcome = Resolved(cred.lastSet[cred.provider])

\* a name read back after two names were written, in each implementation; the
\* empty string read back where it can be stored
C12_Witness ==
    /\ cred.op = "getApiKey"
    /\ cred.host = "ok"
    /\ cred.provider = "serpapi"
    /\ cred.lastSet["serpapi_key"] = Str("sk-1")
    /\ \/ impl = "apiUtils" /\ cred.outcome = Resolved(Str("sk-2"))
       \/ impl = "fetchHandler" /\ cred.lastSet["serpapi"] = Str("")
                                /\ cred.outcome = Resolved(Str(""))

\* C16: the operations of the credential store never raise: when the host
\* storage is unavailable or the storage operation fails, getApiKey and
\* getStoredApiKey complete with null and setApiKey completes with false,
\* in every implementation.
C16_StoreFailuresAreNullOrFalse ==
    (cred.op # "none" /\ cred.host # "ok") =>
       cred.outcome = IF cred.op = "setApiKey" THEN Resolved(JsFalse) ELSE Resolved(Null)

----------------------------------------------------------------------------
(* Properties of the attempt loop of robustFetch *)

\* the call is over and gave no response: the catch block threw, or the
\* loop ran out
FailedAfterLoop ==
    \/ fetch.pc = "thrown" /\ fetch.outcome.kind # "auth_error"
    \/ fetch.pc = "returned" /\ fetch.outcome.kind = "undefined"

\* C15: when a robustFetch call fails after its attempt loop, the error
\* raised to the caller is the error of the last attempt, which carries the
\* HTTP status when that attempt ended with a non-2xx response.
C15_RaisedErrorIsLastAttempts ==
    (fetch.pc = "thrown" /\ fetch.outcome.kind # "auth_error") =>
       /\ fetch.outcome.kind = "error"
       /\ fetch.outcome.error = fetch.lastError

\* the requests a call has issued, direct and proxy together
Requests == fetch.directFetches + fetch.proxyMessages

\* the catch block has just given up at an attempt that is not the last
GaveUpEarly ==
    /\ fetch.pc = "thrown"
    /\ fetch.outcome.kind = "ReferenceError"
    /\ fetch.attempt < fetch.maxRetries

\* the retry rule as the claim words it
DefaultOrPredicate(error) ==
    DefaultRetryable(error) \/ fetch.retryCondition = "always"

\* the retry rule with a predicate that decides alone
PredicateElseDefault(error) ==
    IF fetch.retryCondition = "none"
    THEN error.named \/ error.status \in {408, 429, 500, 502, 503, 504}
    ELSE fetch.retryCondition = "always"

\* C18 as stated: for a failed attempt that is not the last one, the call
\* goes on to another attempt exactly when the error is in the default
\* retryable set or the caller's retryCondition accepts it, whether or not
\* a retryCondition is given.
C18_RetryIsDefaultOrPredicate ==
    /\ fetch.pc = "backoff" => DefaultOrPredicate(fetch.lastError)
    /\ GaveUpEarly => ~DefaultOrPredicate(fetch.lastError)

\* C18, amended: for a failed attempt that is not the last one and does not
\* switch the call to the proxy, the call retries exactly when the caller's
\* retryCondition accepts the error, if one is given, and exactly when the
\* error is in the default retryable set, if none is given.
C18_RetryIsPredicateElseDefault ==
    /\ fetch.pc = "backoff" =>
          /\ fetch.attempt < fetch.maxRetries
          /\ PredicateElseDefault(fetch.lastError)
    /\ GaveUpEarly =>
          /\ ~PredicateElseDefault(fetch.lastError)
          /\ ~(fetch.lastError.cors /\ fetch.attempt = 1 /\ fetch.modes[1] = "direct")

\* a retryCondition that refuses stops a call on a 500 with attempts left
C18_Witness ==
    /\ GaveUpEarly
    /\ fetch.retryCondition = "never"
    /\ fetch.lastError = HttpError(500)
    /\ fetch.attempt = 1
    /\ fetch.maxRetries = 3

\* C19: when the first attempt fails with a cross-origin error, every later
\* attempt takes the proxy branch; an attempt on the proxy branch is never
\* followed by a direct one, so the call changes from direct to proxy at
\* most once and issues no direct request after it.
C19_ProxyModeIsKept ==
    /\ (Len(fetch.failures) >= 1 /\ fetch.failures[1].cors) =>
          \A j \in 2..Len(fetch.modes) : fetch.modes[j] = "proxy"
    /\ \A i, j \in 1..Len(fetch.modes) :
          (i < j /\ fetch.modes[i] = "proxy") => fetch.modes[j] = "proxy"
    /\ (\E i \in 1..Len(fetch.modes) : fetch.modes[i] = "proxy") =>
          /\ fetch.shouldUseProxy
          /\ fetch.pc # "direct"
          /\ fetch.directFetches <= 1

\* a call that switched after attempt 1 and went on failing through the proxy
C19_Witness ==
    /\ fetch.corsRetryAt = 1
    /\ fetch.failures[1].cors
    /\ fetch.modes = <<"direct", "proxy", "proxy">>
    /\ fetch.proxyMessages = 2
    /\ fetch.directFetches = 1
    /\ Len(fetch.failures) = 3

Accepted(i) ==
    \/ IF fetch.retryCondition = "none" THEN fetch.failures[i].retryable
       ELSE fetch.retryCondition = "always"
    \/ i = 1 /\ fetch.failures[1].cors /\ fetch.modes[1] = "direct"

RefusedFailure(k) ==
    /\ ~fetch.failures[k].retryable
    /\ fetch.retryCondition # "always"

\* attempt k is the last one of the call so far: no attempt and no backoff
\* sleep came after it, and the call has failed or is about to
CallEndsAt(k) ==
    /\ Len(fetch.modes) = k
    /\ Len(fetch.slept) = k
    /\ fetch.pc \in {"caught", "thrown"}

\* C21 as stated: when an attempt fails with a non-retryable error that no
\* caller predicate accepts, no further attempt and no backoff sleep follow
\* and the call fails right after that attempt.
C21_NonRetryableEndsCall ==
    \A k \in 1..Len(fetch.failures) : RefusedFailure(k) => CallEndsAt(k)

\* C21, amended: the same for every such failure except a cross-origin error
\* on a direct first attempt, after which the call goes on through the proxy.
C21_NonRetryableEndsCallButCors ==
    \A k \in 1..Len(fetch.failures) :
       (/\ RefusedFailure(k)
        /\ ~(k = 1 /\ fetch.failures[1].cors /\ fetch.modes[1] = "direct"))
       => CallEndsAt(k)

\* a 404 on the first of three attempts has ended the call
C21_Witness ==
    /\ fetch.pc = "thrown"
    /\ fetch.maxRetries = 3
    /\ fetch.retryCondition = "none"
    /\ fetch.lastError = HttpError(404)
    /\ fetch.modes = <<"direct">>
    /\ fetch.slept = <<0>>

\* C25: a robustFetch call with maxRetries >= 1 that completes normally
\* returns the response of a successful direct or proxy request.
C25_ReturnsResponseOrThrows ==
    (fetch.maxRetries >= 1 /\ fetch.pc = "returned") =>
       fetch.outcome.kind \in {"response", "proxyResponse"}

----------------------------------------------------------------------------
(* Properties of the classifier's choice *)

\* the place of a category in the declaration of INTENT_MAPPINGS
DeclaredAt(intent) ==
    CHOOSE i \in 1..6 :
       <<"search", "news", "weather", "stocks", "movies", "tech">>[i] = intent

\* C24: detectIntent returns the category with the highest keyword score,
\* with that score over the query length as confidence; among categories
\* with the same top score the one declared first wins; when no category
\* scores above zero the result is 'search' with confidence 0.1 and no
\* alternatives.
C24_HighestScoreFirstDeclaredWins ==
    smart.intent # "none" =>
       LET r == smart.intentResult
           sc == Score[smart.query]
           scored == {i \in DOMAIN INTENT_MAPPINGS : sc[i] > 0}
       IN IF scored = {}
          THEN r = [intent |-> "search", confidence |-> Confidence(1, 10),
                    alternatives |-> <<>>]
          ELSE /\ r.intent \in scored
               /\ \A i \in scored : sc[i] <= sc[r.intent]
               /\ \A i \in scored :
                     sc[i] = sc[r.intent] => DeclaredAt(r.intent) <= DeclaredAt(i)
               /\ r.confidence = Confidence(sc[r.intent], Len(Chars(smart.query)))
               /\ smart.intent = r.intent

\* 'find a film' scores 4 for search ('find') and 4 for movies ('film')
C24_Witness ==
    /\ smart.query = "find a film"
    /\ Score["find a film"]["search"] = Score["find a film"]["movies"]
    /\ smart.intentResult.intent = "search"
    /\ smart.intentResult.alternatives[1].intent = "movies"

----------------------------------------------------------------------------
(* Properties of smartApiSelection and of executeMultipleApis *)

\* smartApiSelection has chosen its mode
ModeChosen == smart.mode \in {"single", "multi"}

\* how many providers the multi-provider mode takes: options.maxApis, 2
\* when it is not given
MaxApisOrTwo == IF smart.maxApis = 0 THEN 2 ELSE smart.maxApis

\* the executeApiWithFallback activations are those of ids, in their order
StartedExactly(ids) ==
    \A s \in Slots :
       IF s <= Len(ids)
       THEN calls[s].pc # "idle" /\ calls[s].apiId = ids[s]
       ELSE calls[s] = IdleCall

\* C22: smartApiSelection runs in multi-provider mode exactly when
\* options.useMultiple is set or the confidence is below 0.5, and then takes
\* the first min(maxApis, n) providers of the priority-ordered list (maxApis
\* 2 by default); otherwise it runs executeApiWithFallback once, on the top
\* provider, and what it returns is a one-element array.
C22_MultiModeCondition ==
    ModeChosen =>
       LET apis == smart.availableApis
           conf == smart.intentResult.confidence
           n == IF MaxApisOrTwo < Len(apis) THEN MaxApisOrTwo ELSE Len(apis)
       IN /\ (smart.mode = "multi") <=> (smart.useMultiple \/ 2 * conf.num < conf.den)
          /\ \A i, j \in 1..Len(apis) : i < j => apis[i].priority <= apis[j].priority
          /\ smart.mode = "multi" =>
                /\ smart.apiIds = [i \in 1..n |-> apis[i].id]
                /\ StartedExactly(smart.apiIds)
          /\ smart.mode = "single" =>
                /\ smart.apiIds = <<apis[1].id>>
                /\ StartedExactly(<<apis[1].id>>)
                /\ smart.pc = "returned" => Len(smart.outcome.results) = 1

\* a confident query gone multi on request with maxApis 1, of two providers
C22_Witness ==
    /\ smart.mode = "multi"
    /\ smart.query = "weather"
    /\ smart.useMultiple
    /\ smart.maxApis = 1
    /\ Len(smart.availableApis) = 2
    /\ smart.apiIds = <<"openweather_current">>
    /\ smart.pc = "returned"

\* C23: in multi-provider mode every selected provider's
\* executeApiWithFallback call is under way before any of them completes,
\* the returned array holds one outcome per selected provider in selection
\* order, a failed provider is an entry with success = false, and such a
\* failure neither makes the whole call throw nor keeps the other calls
\* from completing.
C23_MultiCollectsEveryOutcome ==
    smart.mode = "multi" =>
       /\ StartedExactly(smart.apiIds)
       /\ smart.pc # "thrown"
       /\ smart.pc = "returned" =>
             /\ Len(smart.outcome.results) = Len(smart.apiIds)
             /\ \A s \in 1..Len(smart.apiIds) :
                   /\ Settled(calls[s])
                   /\ smart.outcome.results[s].apiId = smart.apiIds[s]
                   /\ smart.outcome.results[s].success = (calls[s].pc = "returned")
                   /\ calls[s].pc = "thrown" =>
                         smart.outcome.results[s].error = calls[s].result

\* the first provider failed, the second one completed with a success
C23_Witness ==
    /\ smart.mode = "multi"
    /\ smart.pc = "returned"
    /\ Len(smart.apiIds) = 2
    /\ ~smart.outcome.results[1].success
    /\ smart.outcome.results[2].success

\* how often id stands in seq
Occurrences(seq, id) == Cardinality({i \in 1..Len(seq) : seq[i] = id})

\* how often the handler of id has been invoked by the activations of the
\* slots 1..n
RECURSIVE Invocations(_, _)
Invocations(id, n) ==
    IF n = 0 THEN 0
    ELSE Occurrences(calls[n].invoked, id) + Invocations(id, n - 1)

\* C26 as stated: within one call in multi-provider mode no provider's
\* handler is invoked more than once.
C26_HandlerInvokedAtMostOnce ==
    smart.mode = "multi" =>
       \A id \in DOMAIN Registry : Invocations(id, Len(smart.apiIds)) <= 1

\* C26, amended: the selected providers are distinct, each selected
\* provider's activation invokes a handler at most once, and so a handler
\* is invoked at most once for every selected provider whose chain holds it.
C26_HandlerOncePerActivation ==
    smart.mode = "multi" =>
       /\ \A s, t \in 1..Len(smart.apiIds) :
             s # t => smart.apiIds[s] # smart.apiIds[t]
       /\ \A s \in 1..Len(smart.apiIds), id \in DOMAIN Registry :
             Occurrences(calls[s].invoked, id) <= 1
       /\ \A id \in DOMAIN Registry :
             Invocations(id, Len(smart.apiIds))
                <= Cardinality({s \in 1..Len(smart.apiIds) :
                                  id \in Range(Chain(smart.apiIds[s]))})

\* wikipedia_search invoked as the fallback of serpapi_google and as a
\* selected provider
C26_Witness ==
    /\ smart.mode = "multi"
    /\ smart.apiIds = <<"serpapi_google", "wikipedia_search">>
    /\ "wikipedia_search" \in Range(calls[1].invoked)
    /\ "wikipedia_search" \in Range(calls[2].invoked)

----------------------------------------------------------------------------
(* Properties of the shipped catalog's references *)

\* C30: every id in the fallbacks of an entry of the catalog and every id in
\* the primary or fallback list of an intent is a key of the catalog, so the
\* call stack of an activation for a key of the catalog holds keys only.
C30_ReferencedIdsAreRegistered ==
    catalog = "shipped" =>
       /\ \A id \in DOMAIN Registry :
             Range(Registry[id].fallbacks) \subseteq DOMAIN Registry
       /\ \A intent \in DOMAIN INTENT_MAPPINGS :
             IntentApiIds(intent) \subseteq DOMAIN Registry
       /\ \A s \in Slots :
             calls[s].apiId \in DOMAIN Registry =>
                Range(calls[s].callStack) \subseteq DOMAIN Registry

\* the providers of an intent looked up and a chain of three walked to its end
C30_Witness ==
    /\ catalog = "shipped"
    /\ smart.intent = "news"
    /\ smart.apiIds = <<"newsapi_everything", "serpapi_news">>
    /\ calls[1].pc = "thrown"
    /\ calls[1].tried = <<"newsapi_everything", "serpapi_news", "reddit_search">>

----------------------------------------------------------------------------
(* The usage limit under concurrent 'scan' messages *)

\* C27: as long as pagesAnalyzedCount has not been reset, the stored count
\* never exceeds 5 and at most 5 scans go on to analyzePage, however the
\* handlers of concurrent 'scan' messages interleave.
C27_AtMostFiveAdmitted ==
    usage.resets = 0 =>
        /\ usage.pagesAnalyzedCount <= USAGE_LIMIT
        /\ usage.admitted <= USAGE_LIMIT

----------------------------------------------------------------------------
(* The concurrency limit of batchRequests *)

\* the requests whose executeRequest has started and has not settled
InFlight == {i \in BatchRequests : batch.status[i] = "inFlight"}

\* the requests whose promise in results has not settled
Unsettled == {i \in BatchRequests : batch.status[i] \in {"inFlight", "settled"}}

\* C28: while batchRequests runs with maxConcurrency >= 1, the requests
\* started and not yet settled are never more than maxConcurrency, in
\* whatever order the requests complete.
C28_InFlightWithinMaxConcurrency ==
    batch.maxConcurrency >= 1 =>
        /\ Cardinality(InFlight) <= batch.maxConcurrency
        /\ Cardinality(Unsettled) <= batch.maxConcurrency

\* the limit is reached again after the second request completed before
\* the first and let the third start
C28_Witness ==
    /\ batch.maxConcurrency = 2
    /\ batch.pc = "race"
    /\ batch.status[1] = "inFlight"
    /\ batch.status[2] = "done"
    /\ batch.status[3] = "inFlight"
    /\ Cardinality(InFlight) = batch.maxConcurrency

----------------------------------------------------------------------------
(* The analysis queue *)

\* C29: an analyzePage call queued behind a running analysis is in the end
\* started and its promise resolved, also when an analysis before it threw.
C29_QueuedIsEventuallyResolved ==
    \A r \in Analyses :
       (analysis.call[r].pc = "queued") ~> (analysis.call[r].pc = "resolved")

====
